---- MODULE Spec2Model ----
(***************************************************************************)
(* A model of the contractive filter bar                                   *)
(* (src/shell/app/common/components/contractive-filter/index.tsx).         *)
(*                                                                         *)
(* One step of the model is one event of the browser's event loop: a user  *)
(* event or a timer callback, together with the renders and effects React  *)
(* runs before the next event is handled.                                  *)
(***************************************************************************)
EXTENDS Integers, Sequences, FiniteSets, Bags, TLC

VARIABLES
  conditions,       \* useState: the condition descriptors, showIndex included
  valueMap,         \* useState: key -> current value
  valueMapRef,      \* useRef: copy of valueMap taken by the effect after a render
  values,           \* prop: the controller's value map, when one is given
  initValue,        \* prop: the initial value map
  delay,            \* prop: the debounce delay of the bar, in ticks
  debouncedChange,  \* useRef: debounce(onChange, delay) of the bar
  inputVal,         \* InputFilterItem useState, per input condition
  inputDebounce,    \* InputFilterItem useRef: debounce(onChange, 1000), per input
  activeMap,        \* useState: key -> picker open
  closeAll,         \* useState
  emitted,          \* the upstream onChange calls made by the last step
  last,             \* the name of the event the last step handled
  filterMap,        \* SelectFilterItem useState: the search text, per select item
  quickSave,        \* QuickSave useState: v and tip, per select item
  quickOps,         \* the onQuickOperation calls made by the last step
  upstream,         \* the arguments of the most recent upstream onChange call
  sinceChange,      \* ticks elapsed since the last call of debouncedChange
  burst,            \* the changes made since the bar's debounce timer was armed
  toasts,           \* the message.error calls made by the last step
  input,            \* the argument of the last event, where the state does not show it
  hasMore,          \* SelectFilterItem useState, per select item
  status,           \* Iteration useState: the selected tab
  paging,           \* iterationStore: iterationPaging
  fetches,          \* the getIterations calls in flight, a bag
  iterationList,    \* iterationStore: the records the table shows
  latest,           \* the most recent getIterations call
  projectId,        \* Iteration: the projectId of the route parameters
  requests,         \* the getIterations calls made by the last step
  deleting,         \* the deleteIteration calls in flight
  editing,          \* the editIteration calls in flight
  modal,            \* Iteration useUpdate: modalVisible and curDetail
  confirm           \* the record of the open Modal.confirm, if any

barVars == <<conditions, valueMap, valueMapRef, values, initValue, delay,
             debouncedChange, inputVal, inputDebounce, activeMap, closeAll,
             emitted, upstream, filterMap, quickSave, quickOps,
             sinceChange, burst, toasts, hasMore>>

viewVars == <<status, paging, fetches, iterationList, latest, projectId,
              requests, deleting, editing, modal, confirm>>

vars == <<barVars, viewVars, last, input>>

(***************************************************************************)
(* Bounds of the model.                                                    *)
(***************************************************************************)
Delay == 2            \* the non-zero delay prop, in ticks
MaxShowIndex == 3     \* the largest showIndex the menu may hand out
InputDelay == 1       \* the 1000 ms of the input item's debounce, in ticks

(***************************************************************************)
(* JavaScript values.  A value is a tagged record so that values of        *)
(* different types can be compared.                                        *)
(***************************************************************************)
Undefined == [t |-> "undefined", v |-> <<>>]
Scalar(x) == [t |-> "scalar", v |-> <<x>>]
Arr(s) == [t |-> "array", v |-> s]
Str(s) == [t |-> "string", v |-> s]

\* JavaScript truthiness: undefined, 0 and '' are falsy, every array is truthy.
Truthy(value) ==
  CASE value.t = "undefined" -> FALSE
    [] value.t = "scalar" -> value.v[1] # 0
    [] value.t = "string" -> value.v # <<>>
    [] OTHER -> TRUE

\* lodash isEmpty restricted to the values a condition holds.
IsEmptyValue(value) ==
  \/ value.t = "undefined"
  \/ value.t \in {"array", "string"} /\ value.v = <<>>

Includes(s, x) == \E i \in 1..Len(s) : s[i] = x

RECURSIVE Without(_, _)
Without(s, x) ==
  IF s = <<>> THEN <<>>
  ELSE IF Head(s) = x THEN Without(Tail(s), x)
  ELSE <<Head(s)>> \o Without(Tail(s), x)

(***************************************************************************)
(* Strings are sequences of characters.                                    *)
(***************************************************************************)
toLowerCaseChar(c) == CASE c = "A" -> "a" [] c = "B" -> "b" [] OTHER -> c

toLowerCase(s) == [i \in 1..Len(s) |-> toLowerCaseChar(s[i])]

\* String.prototype.includes
includesString(s, f) ==
  \E i \in 0..(Len(s) - Len(f)) : SubSeq(s, i + 1, i + Len(f)) = f

\* A match that tells upper case from lower case.
filterMatchCaseSensitive(v, f) == includesString(v, f)

filterMatch(v, f) == includesString(toLowerCase(v), toLowerCase(f))

(***************************************************************************)
(* Options of a select condition, and getSelectOptions.                    *)
(***************************************************************************)
NoChildren == [has |-> FALSE, list |-> <<>>]

\* An option without a children field.
Opt(label, value) == [label |-> label, value |-> value, children |-> NoChildren]

\* An option with a children field.
Group(label, value, list) ==
  [label |-> label, value |-> value, children |-> [has |-> TRUE, list |-> list]]

\* One round of options.forEach: useableOptions after the round, and the
\* item as the round leaves it (curOp is a copy, so the pushes of matching
\* children do not reach item.children).
getSelectOptionsStep(acc, item, filterKey) ==
  LET Test(cItem) == filterMatch(cItem.label, filterKey)
      curOp == [item EXCEPT !.children.list = SelectSeq(item.children.list, Test)]
  IN [useableOptions |->
        IF item.children.has
        THEN (IF curOp.children.list # <<>>
              THEN acc.useableOptions \o <<curOp>> ELSE acc.useableOptions)
        ELSE (IF filterMatch(item.label, filterKey)
              THEN acc.useableOptions \o <<item>> ELSE acc.useableOptions),
      options |-> acc.options \o <<item>>]

RECURSIVE getSelectOptionsFrom(_, _, _)
getSelectOptionsFrom(acc, options, filterKey) ==
  IF options = <<>> THEN acc
  ELSE getSelectOptionsFrom(getSelectOptionsStep(acc, Head(options), filterKey),
                            Tail(options), filterKey)

\* A call of getSelectOptions: what it returns, and its first argument as the
\* call leaves it.
getSelectOptionsRun(options, filterKey) ==
  IF ~Truthy(filterKey) THEN [useableOptions |-> options, options |-> options]
  ELSE getSelectOptionsFrom([useableOptions |-> <<>>, options |-> <<>>],
                            options, filterKey.v)

getSelectOptions(options, filterKey) ==
  getSelectOptionsRun(options, filterKey).useableOptions

\* The options SelectFilterItem renders as OptionItem, in order: an option
\* with children is rendered as a group of its children.
RECURSIVE optionItemsOf(_)
optionItemsOf(useOptions) ==
  IF useOptions = <<>> THEN <<>>
  ELSE (IF Head(useOptions).children.has THEN Head(useOptions).children.list
        ELSE <<Head(useOptions)>>) \o optionItemsOf(Tail(useOptions))

\* map(options, 'label')
labelsOf(options) == {options[i].label : i \in 1..Len(options)}

(***************************************************************************)
(* Condition descriptors.                                                  *)
(***************************************************************************)
Keys == {"a", "b", "q"}
NoKey == "undefined"

\* showIndex is a number, or one of the two non-numbers JavaScript produces.
NoShowIndex == -1     \* the field is absent or undefined
NaN == -2             \* undefined + 1

IsNumber(x) == x >= 0
\* !!showIndex
TruthyIndex(x) == x > 0

Cond(key, type, fixed, split, required, mode, showIndex, options) ==
  [key |-> key, type |-> type, fixed |-> fixed, split |-> split,
   required |-> required, mode |-> mode, showIndex |-> showIndex,
   options |-> options, haveFilter |-> FALSE, quickAdd |-> FALSE,
   firstShowLength |-> 0]

\* A select condition with a search box and a quick-add row.
SelectCond(key, fixed, required, mode, showIndex, options, haveFilter, quickAdd) ==
  [Cond(key, "select", fixed, FALSE, required, mode, showIndex, options)
     EXCEPT !.haveFilter = haveFilter, !.quickAdd = quickAdd]

EmptyMap == [k \in Keys |-> Undefined]

(***************************************************************************)
(* lodash helpers on showIndex.                                            *)
(***************************************************************************)
\* max(map(conditions, 'showIndex')): undefined and NaN entries are skipped,
\* and the result is undefined when no entry is a number.
RECURSIVE maxShowIndexOf(_)
maxShowIndexOf(conds) ==
  IF conds = <<>> THEN NoShowIndex
  ELSE LET rest == maxShowIndexOf(Tail(conds))
           x == Head(conds).showIndex
       IN IF IsNumber(x) /\ x > rest THEN x ELSE rest

\* x + 1 in JavaScript: undefined + 1 and NaN + 1 are NaN.
PlusOne(x) == IF IsNumber(x) THEN x + 1 ELSE NaN

\* lodash compareAscending: numbers ascending, then undefined, then NaN.
compareAscending(x, y) ==
  IF IsNumber(x) /\ IsNumber(y) THEN x < y
  ELSE IF IsNumber(x) THEN TRUE
  ELSE IF IsNumber(y) THEN FALSE
  ELSE x = NoShowIndex /\ y = NaN

RECURSIVE InsertSorted(_, _)
InsertSorted(sorted, item) ==
  IF sorted = <<>> THEN <<item>>
  ELSE IF compareAscending(item.showIndex, Head(sorted).showIndex)
       THEN <<item>> \o sorted
       ELSE <<Head(sorted)>> \o InsertSorted(Tail(sorted), item)

\* sortBy(list, 'showIndex'): a stable sort.
RECURSIVE sortByShowIndexFrom(_, _)
sortByShowIndexFrom(sorted, list) ==
  IF list = <<>> THEN sorted
  ELSE sortByShowIndexFrom(InsertSorted(sorted, Head(list)), Tail(list))

sortByShowIndex(list) == sortByShowIndexFrom(<<>>, list)

(***************************************************************************)
(* setConditionShowIndex and getInitConditions.                            *)
(***************************************************************************)
\* show ? (maxShowIndex || 0) + 1 : 0
NewShowIndex(conds, show) ==
  LET maxShowIndex == maxShowIndexOf(conds)
  IN IF show THEN (IF TruthyIndex(maxShowIndex) THEN maxShowIndex ELSE 0) + 1
     ELSE 0

setConditionShowIndex(conds, key, show) ==
  [i \in 1..Len(conds) |->
     IF conds[i].key = key
     THEN [conds[i] EXCEPT !.showIndex = NewShowIndex(conds, show)]
     ELSE conds[i]]

\* The test of getInitConditions: the condition is given the next showIndex.
ShownByValue(item, curValue) ==
  \/ item.showIndex = NoShowIndex /\ curValue # Undefined
  \/ curValue.t = "array" /\ curValue.v # <<>>

RECURSIVE getInitConditionsFrom(_, _, _)
getInitConditionsFrom(conds, map, curMax) ==
  IF conds = <<>> THEN <<>>
  ELSE IF ShownByValue(Head(conds), map[Head(conds).key])
       THEN <<[Head(conds) EXCEPT !.showIndex = PlusOne(curMax)]>>
            \o getInitConditionsFrom(Tail(conds), map, PlusOne(curMax))
       ELSE <<Head(conds)>> \o getInitConditionsFrom(Tail(conds), map, curMax)

getInitConditions(conds, map) ==
  getInitConditionsFrom(conds, map, maxShowIndexOf(conds))

\* The effect on [propsConditions]: the conditions of the props, each with
\* preShowIndexMap[item.key] || item.showIndex.
keepShowIndexConditions(propsConditions, conds) ==
  LET preShowIndex(key) ==
        IF \E i \in 1..Len(conds) : conds[i].key = key
        THEN conds[CHOOSE i \in 1..Len(conds) :
                     /\ conds[i].key = key
                     /\ \A j \in (i + 1)..Len(conds) : conds[j].key # key].showIndex
        ELSE NoShowIndex
  IN [i \in 1..Len(propsConditions) |->
        IF TruthyIndex(preShowIndex(propsConditions[i].key))
        THEN [propsConditions[i] EXCEPT
                !.showIndex = preShowIndex(propsConditions[i].key)]
        ELSE propsConditions[i]]

(***************************************************************************)
(* The lists the bar renders.                                              *)
(***************************************************************************)
IsFixedInput(a) == a.type = "input" /\ a.fixed # "false"

inputListOf(conds) == SelectSeq(conds, IsFixedInput)

IsSplit(a) == a.split

mainListOf(conds) == SelectSeq(conds, IsSplit)

\* The filter of showList.
InShowList(a, map) ==
  IF a.split THEN FALSE
  ELSE IF a.type # "input" /\ map[a.key] # Undefined THEN TRUE
  ELSE IF a.type # "input" THEN TruthyIndex(a.showIndex) \/ a.fixed = "true"
  ELSE TruthyIndex(a.showIndex) /\ a.fixed = "false"

\* The filter of showList without the sortBy.
showListUnsorted(conds, map) ==
  LET Test(a) == InShowList(a, map)
  IN SelectSeq(conds, Test)

showListOf(conds, map) ==
  LET Test(a) == InShowList(a, map)
  IN sortByShowIndex(SelectSeq(conds, Test))

renderedListOf(conds, map) ==
  mainListOf(conds) \o inputListOf(conds) \o showListOf(conds, map)

KeysOf(list) == {list[i].key : i \in 1..Len(list)}

CondOf(conds, key) == conds[CHOOSE i \in 1..Len(conds) : conds[i].key = key]

IsMenuEntry(item) ==
  ~(item.fixed = "true" \/ (item.type = "input" /\ item.fixed # "false"))

displayConditionsLen(conds) ==
  Cardinality({i \in 1..Len(conds) :
     \/ conds[i].fixed # "true" /\ conds[i].type # "input" /\ ~conds[i].split
     \/ conds[i].fixed = "false" /\ conds[i].type = "input"})

(***************************************************************************)
(* SelectFilterItem: the value as an array, and a click on an option.      *)
(***************************************************************************)
\* _value
valueAsArray(value) ==
  IF Truthy(value)
  THEN (IF value.t \in {"scalar", "string"} THEN <<value.v[1]>> ELSE value.v)
  ELSE <<>>

\* The new value array of a click in multiple mode.
toggledValue(_value, optValue) ==
  IF Includes(_value, optValue) THEN Without(_value, optValue)
  ELSE _value \o <<optValue>>

\* onClickOptItem: whether onChange is called, with what value, and whether
\* onVisibleChange(false) is called.
onClickOptItem(item, value, optValue) ==
  LET _value == valueAsArray(value)
      newVal == toggledValue(_value, optValue)
  IN IF item.mode = "single"
     THEN IF item.required /\ Includes(_value, optValue)
          THEN [emit |-> FALSE, value |-> Undefined, close |-> FALSE]
          ELSE [emit |-> TRUE,
                value |-> IF Includes(_value, optValue) THEN Undefined
                          ELSE Scalar(optValue),
                close |-> TRUE]
     ELSE IF item.required /\ newVal = <<>>
          THEN [emit |-> FALSE, value |-> Undefined, close |-> FALSE]
          ELSE [emit |-> TRUE, value |-> Arr(newVal), close |-> FALSE]

\* useState(itemData.firstShowLength ? (options?.length || 0) > firstShowLength
\* : false); a firstShowLength of 0 stands for a condition without the field.
hasMoreInit(item) ==
  IF item.firstShowLength # 0 THEN Len(item.options) > item.firstShowLength
  ELSE FALSE

\* firstShowLength = 200 of the destructuring, for a condition without the
\* field.
firstShowLengthOf(item) ==
  IF item.firstShowLength = 0 THEN 200 ELSE item.firstShowLength

\* list.slice(0, n)
slice(list, n) == SubSeq(list, 1, IF n < Len(list) THEN n ELSE Len(list))

\* useOptions = hasMore ? filterOptions?.slice(0, firstShowLength) : filterOptions
useOptionsOf(item, filterKey, more) ==
  IF more
  THEN slice(getSelectOptions(item.options, filterKey), firstShowLengthOf(item))
  ELSE getSelectOptions(item.options, filterKey)

(***************************************************************************)
(* TimeSpanFilterItem.  A bound of a duration range is the number and the  *)
(* unit the Duration widget holds, or no duration.                         *)
(***************************************************************************)
Duration(timer, unit) == [timer |-> timer, unit |-> unit]
NoDuration == Duration(0, "none")

NotANumber == [isNumber |-> FALSE, n |-> 0]
Number(n) == [isNumber |-> TRUE, n |-> n]

\* The milliseconds of a unit.
unitMs(unit) == IF unit = "s" THEN 1000 ELSE 1

\* transformDuration of common/components/duration: the milliseconds of a
\* duration, and no number for no duration.
transformDuration(duration) ==
  IF duration.unit = "none" THEN NotANumber
  ELSE Number(duration.timer * unitMs(duration.unit))

\* The onChange of the Duration widget with the range check left out.
timeSpanOnChangeUnchecked(v) == [emit |-> TRUE, value |-> Arr(v), error |-> FALSE]

\* The onChange TimeSpanFilterItem gives the Duration widget: whether the
\* item's onChange is called, with what value, and whether message.error is.
timeSpanOnChange(v) ==
  LET durationMin == transformDuration(v[1])
      durationMax == transformDuration(v[2])
  IN IF durationMin.isNumber /\ durationMax.isNumber
     THEN IF durationMin.n <= durationMax.n
          THEN [emit |-> TRUE, value |-> Arr(v), error |-> FALSE]
          ELSE [emit |-> FALSE, value |-> Undefined, error |-> TRUE]
     ELSE IF ~durationMin.isNumber /\ ~durationMax.isNumber
          THEN [emit |-> TRUE, value |-> Arr(<<>>), error |-> FALSE]
          ELSE [emit |-> FALSE, value |-> Undefined, error |-> FALSE]

WrongDuration == "msp:wrong duration"

(***************************************************************************)
(* lodash debounce(func, wait), trailing edge: a call stores its arguments *)
(* and restarts the wait; the function runs with the last arguments once   *)
(* the wait has passed without a call.                                     *)
(***************************************************************************)
NoArgs == [map |-> EmptyMap, key |-> NoKey]
IdleDebounce == [pending |-> FALSE, left |-> 0, args |-> NoArgs]

IdleInputDebounce ==
  [pending |-> FALSE, left |-> 0, args |-> [key |-> NoKey, value |-> Undefined]]

debounceCall(wait, args) == [pending |-> TRUE, left |-> wait, args |-> args]

debounceDue(d) == d.pending /\ d.left = 0

debounceTick(d) == IF d.pending THEN [d EXCEPT !.left = d.left - 1] ELSE d

(***************************************************************************)
(* The bookkeeping of what a step did: no part of the program.             *)
(***************************************************************************)
NoChange == [t |-> "nochange", v |-> <<>>]
NoBurst == [open |-> FALSE, changed |-> [k \in Keys |-> NoChange], calls |-> 0,
            forced |-> FALSE, reset |-> FALSE]
NoCall == [called |-> FALSE, map |-> EmptyMap, key |-> NoKey]

Min(x, y) == IF x < y THEN x ELSE y

\* The burst after a debounced change that sets `changes` (key -> value, or
\* NoChange for the keys it leaves alone).
BurstAfterChange(changes) ==
  LET base == IF debouncedChange.pending THEN burst ELSE [NoBurst EXCEPT !.open = TRUE]
  IN [base EXCEPT !.changed = [k \in Keys |->
        IF changes[k] # NoChange THEN changes[k] ELSE base.changed[k]]]


(***************************************************************************)
(* ContractiveFilter: the value map and handelItemChange.                  *)
(***************************************************************************)
\* active={closeAll ? false : activeMap[item.key]}
Active(key) == IF closeAll THEN FALSE ELSE activeMap[key]

\* The test of handelItemChange without forceChange.
useDebounceUnforced(forceChange) == delay # 0

\* if (delay && !forceChange)
useDebounce(forceChange) == delay # 0 /\ ~forceChange

\* A value map that starts from nothing instead of valueMapRef.current.
curValueMapFresh(ref, key, value) == [EmptyMap EXCEPT ![key] = value]

\* valueMapRef.current without the change.
curValueMapStale(ref, key, value) == ref

\* curValueMap = { ...curValueMap, [key]: value }
curValueMapOf(ref, key, value) == [ref EXCEPT ![key] = value]

\* setValueMap((prev) => ({ ...prev, [key]: value }))
setValueOf(prev, key, value) == [prev EXCEPT ![key] = value]

\* { ...prev, ...newValueMap }: every key newValueMap holds overrides prev.
mergeValueMap(prev, newValueMap) ==
  [k \in Keys |-> IF newValueMap[k] = NoChange THEN prev[k] ELSE newValueMap[k]]

\* InputFilterItem, useUpdateEffect on [value]: setInputVal(value) for every
\* input whose value prop changed in the render.
syncedInputVal(newMap) ==
  [k \in Keys |-> IF newMap[k] # valueMap[k] THEN newMap[k] ELSE inputVal[k]]

\* The upstream call, direct or through debouncedChange, of handelItemChange.
propagate(curValueMap, key, forceChange, changes) ==
  IF useDebounce(forceChange)
  THEN /\ debouncedChange' = debounceCall(delay, [map |-> curValueMap, key |-> key])
       /\ emitted' = <<>>
       /\ UNCHANGED upstream
       /\ sinceChange' = 0
       /\ burst' = BurstAfterChange(changes)
  ELSE /\ emitted' = <<[map |-> curValueMap, key |-> key]>>
       /\ upstream' = [called |-> TRUE, map |-> curValueMap, key |-> key]
       /\ UNCHANGED <<debouncedChange, sinceChange>>
       /\ burst' = IF burst.open
                   THEN [burst EXCEPT !.calls = Min(burst.calls + 1, 2),
                                      !.forced = burst.forced \/ forceChange]
                   ELSE burst

\* handelItemChange({ key, value }, { forceChange })
handelItemChange(key, value, forceChange) ==
  /\ valueMap' = setValueOf(valueMap, key, value)
  /\ valueMapRef' = valueMap'
  /\ inputVal' = syncedInputVal(valueMap')
  /\ propagate(curValueMapOf(valueMapRef, key, value), key, forceChange,
               [k \in Keys |-> IF k = key THEN value ELSE NoChange])

\* handelItemChange(newValueMap, { batchChange: true }); the key passed on is
\* newValueMap.key, which no condition of the model is named.
handelBatchChange(newValueMap) ==
  /\ valueMap' = mergeValueMap(valueMap, newValueMap)
  /\ valueMapRef' = valueMap'
  /\ inputVal' = syncedInputVal(valueMap')
  /\ propagate(mergeValueMap(valueMapRef, newValueMap), NoKey, FALSE, newValueMap)

(***************************************************************************)
(* QuickSave.                                                              *)
(***************************************************************************)
TipEmpty == "can not be empty"
TipExists == "Name already exists"
NoTip == ""

\* The effect on [v] of QuickSave, for the options of the render it runs in.
tipOf(options, v) ==
  IF ~Truthy(v) THEN TipEmpty
  ELSE IF v.v \in labelsOf(options) THEN TipExists
  ELSE NoTip

NewQuickSave == [v |-> Str(<<>>), tip |-> TipEmpty]

\* The operationKey of quickAdd.
QuickAddKey == "quickAdd"

(***************************************************************************)
(* The events of the filter bar.                                           *)
(***************************************************************************)
HasKey(conds, key) == key \in KeysOf(conds)

Rendered(key) == key \in KeysOf(renderedListOf(conditions, valueMap))

\* The state of an item's component lives as long as the bar renders the item.
itemStateKept ==
  LET rendered == KeysOf(renderedListOf(conditions', valueMap'))
  IN /\ filterMap' = [k \in Keys |-> IF k \in rendered THEN filterMap[k] ELSE Undefined]
     /\ quickSave' = [k \in Keys |-> IF k \in rendered THEN quickSave[k] ELSE NewQuickSave]
     /\ hasMore' = [k \in Keys |->
          IF k \notin rendered THEN FALSE
          ELSE IF Rendered(k) THEN hasMore[k]
          ELSE hasMoreInit(CondOf(conditions', k))]

\* Dropdown onVisibleChange on a click on the trigger of a select item; the
\* click bubbles to the wrapper, whose onClick is setCloseAll(false).
VisibleChange(key) ==
  /\ Rendered(key)
  /\ CondOf(conditions, key).type = "select"
  /\ activeMap' = [activeMap EXCEPT ![key] = ~Active(key)]
  /\ closeAll' = FALSE
  /\ emitted' = <<>>
  /\ last' = "VisibleChange"
  /\ UNCHANGED <<conditions, valueMap, valueMapRef, values, initValue, delay,
                 debouncedChange, inputVal, inputDebounce, upstream,
                 sinceChange, burst>>
  /\ quickOps' = <<>>
  /\ UNCHANGED <<filterMap, quickSave, hasMore>>
  /\ toasts' = <<>> /\ input' = <<>>
  /\ UNCHANGED viewVars

\* A click on an option of an open select item.
ClickOption(key, optValue) ==
  LET item == CondOf(conditions, key)
      click == onClickOptItem(item, valueMap[key], optValue)
      useOptions == useOptionsOf(item, filterMap[key], hasMore[key])
  IN /\ Rendered(key)
     /\ item.type = "select"
     /\ Active(key)
     /\ \E i \in 1..Len(optionItemsOf(useOptions)) :
          optionItemsOf(useOptions)[i].value = optValue
     /\ closeAll' = FALSE
     /\ IF click.emit
        THEN handelItemChange(key, click.value, FALSE)
        ELSE /\ emitted' = <<>>
             /\ UNCHANGED <<valueMap, valueMapRef, inputVal, debouncedChange,
                            upstream, sinceChange, burst>>
     /\ activeMap' = IF click.close THEN [activeMap EXCEPT ![key] = FALSE]
                     ELSE activeMap
     /\ last' = "ClickOption"
     /\ UNCHANGED <<conditions, values, initValue, delay, inputDebounce>>
     /\ quickOps' = <<>>
     /\ itemStateKept
     /\ toasts' = <<>> /\ input' = <<>>
     /\ UNCHANGED viewVars

\* The 'Clear selected' link of an open select item: multiple mode, not required.
ClearItem(key) ==
  LET item == CondOf(conditions, key)
  IN /\ Rendered(key)
     /\ item.type = "select"
     /\ Active(key)
     /\ item.mode # "single"
     /\ ~item.required
     /\ closeAll' = FALSE
     /\ handelItemChange(key, Undefined, FALSE)
     /\ last' = "ClearItem"
     /\ UNCHANGED <<conditions, values, initValue, delay, inputDebounce, activeMap>>
     /\ quickOps' = <<>>
     /\ itemStateKept
     /\ toasts' = <<>> /\ input' = <<>>
     /\ UNCHANGED viewVars

\* A condition of no built-in type renders getComp({ onChange }): the component
\* calls onChange({ key, value: v }) with a value of its own.
CustomChange(key, value) ==
  /\ Rendered(key)
  /\ CondOf(conditions, key).type = "custom"
  /\ handelItemChange(key, value, FALSE)
  /\ last' = "CustomChange"
  /\ UNCHANGED <<conditions, values, initValue, delay, inputDebounce, activeMap,
                 closeAll>>
  /\ quickOps' = <<>>
  /\ itemStateKept
  /\ toasts' = <<>> /\ input' = <<>>
  /\ UNCHANGED viewVars

\* Typing in an input item: setInputVal, then the effect on [inputVal].
TypeInput(key, text) ==
  /\ Rendered(key)
  /\ CondOf(conditions, key).type = "input"
  /\ text # inputVal[key]
  /\ inputVal' = [inputVal EXCEPT ![key] = text]
  /\ inputDebounce' =
       IF text # valueMap[key]
       THEN [inputDebounce EXCEPT ![key] =
               debounceCall(InputDelay, [key |-> key, value |-> text])]
       ELSE inputDebounce
  /\ emitted' = <<>>
  /\ last' = "TypeInput"
  /\ UNCHANGED <<conditions, valueMap, valueMapRef, values, initValue, delay,
                 debouncedChange, activeMap, closeAll, upstream, sinceChange, burst>>
  /\ quickOps' = <<>>
  /\ UNCHANGED <<filterMap, quickSave, hasMore>>
  /\ toasts' = <<>> /\ input' = <<>>
  /\ UNCHANGED viewVars

\* The input item's debounce runs onChange({ key, value }, { forceChange: true }).
InputDebounceFire(key) ==
  /\ debounceDue(inputDebounce[key])
  /\ inputDebounce' = [inputDebounce EXCEPT ![key] = IdleInputDebounce]
  /\ handelItemChange(key, inputDebounce[key].args.value, TRUE)
  /\ last' = "InputDebounceFire"
  /\ UNCHANGED <<conditions, values, initValue, delay, activeMap, closeAll>>
  /\ quickOps' = <<>>
  /\ itemStateKept
  /\ toasts' = <<>> /\ input' = <<>>
  /\ UNCHANGED viewVars

\* The bar's debounce runs the upstream onChange with the last arguments.
DebounceFire ==
  /\ debounceDue(debouncedChange)
  /\ debouncedChange' = IdleDebounce
  /\ emitted' = <<debouncedChange.args>>
  /\ upstream' = [called |-> TRUE, map |-> debouncedChange.args.map,
                  key |-> debouncedChange.args.key]
  /\ burst' = NoBurst
  /\ sinceChange' = 0
  /\ last' = "DebounceFire"
  /\ UNCHANGED <<conditions, valueMap, valueMapRef, values, initValue, delay,
                 inputVal, inputDebounce, activeMap, closeAll>>
  /\ quickOps' = <<>>
  /\ UNCHANGED <<filterMap, quickSave, hasMore>>
  /\ toasts' = <<>> /\ input' = <<>>
  /\ UNCHANGED viewVars

\* Time passes by one tick; a timer that is due runs before time passes.
Tick ==
  /\ debouncedChange.pending \/ \E k \in Keys : inputDebounce[k].pending
  /\ ~debounceDue(debouncedChange)
  /\ \A k \in Keys : ~debounceDue(inputDebounce[k])
  /\ debouncedChange' = debounceTick(debouncedChange)
  /\ inputDebounce' = [k \in Keys |-> debounceTick(inputDebounce[k])]
  /\ sinceChange' = IF debouncedChange.pending THEN sinceChange + 1 ELSE sinceChange
  /\ emitted' = <<>>
  /\ last' = "Tick"
  /\ UNCHANGED <<conditions, valueMap, valueMapRef, values, initValue, delay,
                 inputVal, activeMap, closeAll, upstream, burst>>
  /\ quickOps' = <<>>
  /\ UNCHANGED <<filterMap, quickSave, hasMore>>
  /\ toasts' = <<>> /\ input' = <<>>
  /\ UNCHANGED viewVars

\* The controller passes a new values prop: useUpdateEffect on [values] runs
\* setValueMap(values || {}).
SetValues(map) ==
  /\ values.given
  /\ values' = [given |-> TRUE, map |-> map]
  /\ valueMap' = map
  /\ valueMapRef' = valueMap'
  /\ inputVal' = syncedInputVal(valueMap')
  /\ emitted' = <<>>
  /\ burst' = IF burst.open THEN [burst EXCEPT !.reset = TRUE] ELSE burst
  /\ last' = "SetValues"
  /\ UNCHANGED <<conditions, initValue, delay, debouncedChange, inputDebounce,
                 activeMap, closeAll, upstream, sinceChange>>
  /\ quickOps' = <<>>
  /\ itemStateKept
  /\ toasts' = <<>> /\ input' = <<>>
  /\ UNCHANGED viewVars

\* The close icon of a rendered item that is neither fixed nor an input.
CloseIcon(key) ==
  LET item == CondOf(conditions, key)
  IN /\ Rendered(key)
     /\ item.fixed # "true"
     /\ item.type # "input"
     /\ conditions' = setConditionShowIndex(conditions, key, FALSE)
     /\ closeAll' = FALSE
     /\ IF valueMap[key] # Undefined
        THEN handelItemChange(key, Undefined, FALSE)
        ELSE /\ emitted' = <<>>
             /\ UNCHANGED <<valueMap, valueMapRef, inputVal, debouncedChange,
                            upstream, sinceChange, burst>>
     /\ last' = "CloseIcon"
     /\ UNCHANGED <<values, initValue, delay, inputDebounce, activeMap>>
     /\ quickOps' = <<>>
     /\ itemStateKept
     /\ toasts' = <<>> /\ input' = <<>>
     /\ UNCHANGED viewVars

\* conditions[_k] || {} in handleClearSelected: conditions is an array and _k
\* the name of a key, which is no index of it, so the lookup finds nothing.
conditionsAt(conds, key) == [type |-> "undefined", fixed |-> "undefined"]

\* The test of handleClearSelected for what is left alone.
keptByClear(pItem) ==
  pItem.fixed = "true" \/ (pItem.type = "input" /\ pItem.fixed # "false")

\* newValueMap of handleClearSelected: initValue?.[_k] ?? undefined for the
\* keys of valueMap whose condition is not kept.  A key valueMap does not
\* hold is left out; without a values prop such a key has no initial value.
clearedValueMap(conds, map, init) ==
  [k \in Keys |-> IF keptByClear(conditionsAt(conds, k)) THEN map[k] ELSE init[k]]

clearedConditions(conds) ==
  [i \in 1..Len(conds) |->
     IF keptByClear(conds[i]) THEN conds[i] ELSE [conds[i] EXCEPT !.showIndex = 0]]

\* 'Clear selected' of the more-filter menu.
ClearSelected ==
  /\ displayConditionsLen(conditions) > 0
  /\ conditions' = clearedConditions(conditions)
  /\ handelBatchChange(clearedValueMap(conditions, valueMap, initValue))
  /\ last' = "ClearSelected"
  /\ UNCHANGED <<values, initValue, delay, inputDebounce, activeMap, closeAll>>
  /\ quickOps' = <<>>
  /\ itemStateKept
  /\ toasts' = <<>> /\ input' = <<>>
  /\ UNCHANGED viewVars

\* A click on an entry of the more-filter menu.
ToggleCondition(key) ==
  LET haveShow == key \in KeysOf(showListOf(conditions, valueMap))
  IN /\ displayConditionsLen(conditions) > 0
     /\ HasKey(conditions, key)
     /\ IsMenuEntry(CondOf(conditions, key))
     /\ NewShowIndex(conditions, ~haveShow) <= MaxShowIndex
     /\ conditions' = setConditionShowIndex(conditions, key, ~haveShow)
     /\ closeAll' = IF haveShow THEN closeAll ELSE FALSE
     /\ activeMap' = IF haveShow THEN activeMap ELSE [activeMap EXCEPT ![key] = TRUE]
     /\ emitted' = <<>>
     /\ last' = "ToggleCondition"
     /\ input' = <<key>>
     /\ UNCHANGED <<valueMap, valueMapRef, values, initValue, delay,
                    debouncedChange, inputVal, inputDebounce, upstream,
                    sinceChange, burst>>
     /\ quickOps' = <<>>
     /\ itemStateKept
     /\ toasts' = <<>>
     /\ UNCHANGED viewVars

\* handleCloseDropdown, the click listener of document.body, for a click on a
\* node that no handler of the bar takes.  The bar renders its date-picker
\* spans inside wrappers; a node inside a date-picker span and outside every
\* wrapper exists when the page renders such a span elsewhere.
BodyClick(node) ==
  LET inner == node.wrap \/ node.dropdown
      isDatePicker == node.datePicker
  IN /\ closeAll' = IF ~inner /\ isDatePicker THEN TRUE ELSE closeAll
     /\ emitted' = <<>>
     /\ last' = IF inner THEN "BodyClick" ELSE "BodyClickOutside"
     /\ UNCHANGED <<conditions, valueMap, valueMapRef, values, initValue, delay,
                    debouncedChange, inputVal, inputDebounce, activeMap,
                    upstream, sinceChange, burst>>
     /\ quickOps' = <<>>
     /\ UNCHANGED <<filterMap, quickSave, hasMore>>
     /\ toasts' = <<>> /\ input' = <<>>
     /\ UNCHANGED viewVars

\* Typing in the search box of an open select item.
SearchInput(key, text) ==
  LET item == CondOf(conditions, key)
  IN /\ Rendered(key)
     /\ item.type = "select"
     /\ Active(key)
     /\ item.haveFilter
     /\ filterMap' = [filterMap EXCEPT ![key] = Str(toLowerCase(text.v))]
     /\ filterMap'[key] # filterMap[key]
     /\ emitted' = <<>>
     /\ quickOps' = <<>>
     /\ last' = "SearchInput"
     /\ UNCHANGED <<conditions, valueMap, valueMapRef, values, initValue, delay,
                    debouncedChange, inputVal, inputDebounce, activeMap,
                    closeAll, upstream, quickSave, sinceChange, burst>>
     /\ toasts' = <<>> /\ input' = <<>>
     /\ UNCHANGED hasMore
     /\ UNCHANGED viewVars

\* Typing in the input of QuickSave: setV, then the effect on [v].
QuickType(key, text) ==
  LET item == CondOf(conditions, key)
  IN /\ Rendered(key)
     /\ item.type = "select"
     /\ Active(key)
     /\ item.quickAdd
     /\ text # quickSave[key].v
     /\ quickSave' = [quickSave EXCEPT
                        ![key] = [v |-> text, tip |-> tipOf(item.options, text)]]
     /\ emitted' = <<>>
     /\ quickOps' = <<>>
     /\ last' = "QuickType"
     /\ UNCHANGED <<conditions, valueMap, valueMapRef, values, initValue, delay,
                    debouncedChange, inputVal, inputDebounce, activeMap,
                    closeAll, upstream, filterMap, sinceChange, burst>>
     /\ toasts' = <<>> /\ input' = <<>>
     /\ UNCHANGED hasMore
     /\ UNCHANGED viewVars

\* A click on Save of QuickSave: !tip && onSave(v), setV(''), then the effect
\* on [v] when v changed.
QuickSaveClick(key) ==
  LET item == CondOf(conditions, key)
      cur == quickSave[key]
  IN /\ Rendered(key)
     /\ item.type = "select"
     /\ Active(key)
     /\ item.quickAdd
     /\ quickOps' = IF cur.tip = NoTip
                    THEN <<[key |-> QuickAddKey, value |-> cur.v]>> ELSE <<>>
     /\ quickSave' = IF cur.v # Str(<<>>)
                     THEN [quickSave EXCEPT ![key] =
                             [v |-> Str(<<>>), tip |-> tipOf(item.options, Str(<<>>))]]
                     ELSE quickSave
     /\ closeAll' = FALSE
     /\ emitted' = <<>>
     /\ last' = "QuickSaveClick"
     /\ UNCHANGED <<conditions, valueMap, valueMapRef, values, initValue, delay,
                    debouncedChange, inputVal, inputDebounce, activeMap,
                    upstream, filterMap, sinceChange, burst>>
     /\ toasts' = <<>> /\ input' = <<>>
     /\ UNCHANGED hasMore
     /\ UNCHANGED viewVars

\* A click on 'load more' of an open select item: setHasMore(false); the
\* click bubbles to the wrapper.
LoadMore(key) ==
  /\ Rendered(key)
  /\ CondOf(conditions, key).type = "select"
  /\ Active(key)
  /\ hasMore[key]
  /\ hasMore' = [hasMore EXCEPT ![key] = FALSE]
  /\ closeAll' = FALSE
  /\ emitted' = <<>>
  /\ quickOps' = <<>>
  /\ toasts' = <<>> /\ input' = <<>>
  /\ last' = "LoadMore"
  /\ UNCHANGED <<conditions, valueMap, valueMapRef, values, initValue, delay,
                 debouncedChange, inputVal, inputDebounce, activeMap, upstream,
                 filterMap, quickSave, sinceChange, burst>>
  /\ UNCHANGED viewVars

\* The Duration widget of a duration-range item reports the range v.
TimeSpanChange(key, v) ==
  LET change == timeSpanOnChange(v)
  IN /\ Rendered(key)
     /\ CondOf(conditions, key).type = "timespanRange"
     /\ IF change.emit
        THEN handelItemChange(key, change.value, FALSE)
        ELSE /\ emitted' = <<>>
             /\ UNCHANGED <<valueMap, valueMapRef, inputVal, debouncedChange,
                            upstream, sinceChange, burst>>
     /\ toasts' = IF change.error THEN <<WrongDuration>> ELSE <<>>
     /\ input' = <<[key |-> key, v |-> v]>>
     /\ last' = "TimeSpanChange"
     /\ quickOps' = <<>>
     /\ UNCHANGED <<conditions, values, initValue, delay, inputDebounce, activeMap,
                    closeAll>>
     /\ itemStateKept
     /\ UNCHANGED viewVars

\* The parent passes a new conditions prop: the effect on [propsConditions].
SetConditions(propsConditions) ==
  /\ conditions' = keepShowIndexConditions(propsConditions, conditions)
  /\ conditions' # conditions
  /\ emitted' = <<>>
  /\ quickOps' = <<>>
  /\ last' = "SetConditions"
  /\ UNCHANGED <<valueMap, valueMapRef, values, initValue, delay,
                 debouncedChange, inputVal, inputDebounce, activeMap, closeAll,
                 upstream, sinceChange, burst>>
  /\ itemStateKept
  /\ toasts' = <<>> /\ input' = <<>>
  /\ UNCHANGED viewVars

(***************************************************************************)
(* Mounting: the state after the first render and its effects.             *)
(***************************************************************************)
NoValues == [given |-> FALSE, map |-> EmptyMap]

Mounted(propsConditions, propValues, propInitValue, propDelay) ==
  LET first == IF propValues.given THEN propValues.map ELSE propInitValue
  IN /\ conditions = keepShowIndexConditions(propsConditions,
                        getInitConditions(propsConditions, first))
     /\ valueMap = first
     /\ valueMapRef = first
     /\ values = propValues
     /\ initValue = propInitValue
     /\ delay = propDelay
     /\ debouncedChange = IdleDebounce
     /\ inputVal = [k \in Keys |->
                      IF HasKey(propsConditions, k)
                         /\ CondOf(propsConditions, k).type = "input"
                      THEN first[k] ELSE Undefined]
     /\ inputDebounce = [k \in Keys |-> IdleInputDebounce]
     /\ activeMap = [k \in Keys |-> FALSE]
     /\ closeAll = FALSE
     /\ emitted = <<>>
     /\ last = "mount"
     /\ filterMap = [k \in Keys |-> Undefined]
     /\ quickSave = [k \in Keys |-> NewQuickSave]
     /\ quickOps = <<>>
     /\ upstream = NoCall
     /\ sinceChange = 0
     /\ burst = NoBurst
     /\ toasts = <<>>
     /\ hasMore = [k \in Keys |->
          IF k \in KeysOf(renderedListOf(conditions, valueMap))
          THEN hasMoreInit(CondOf(conditions, k)) ELSE FALSE]

(***************************************************************************)
(* The iteration view (src/unnamed/part_000).  A step is a user event or   *)
(* the settling of a call of the store, with the render and the effects    *)
(* that follow it.                                                         *)
(***************************************************************************)
MaxInFlight == 1      \* the deleteIteration and editIteration calls in flight
MaxFetches == 2       \* the getIterations calls in flight

Tabs == {"unarchive", "archived"}

iterationStateMap(st) == IF st = "archived" THEN "FILED" ELSE "UNFILED"

query(st) == [state |-> iterationStateMap(st), pageNo |-> 1]

\* An argument q of getList; 0 stands for a field q does not have.
Q(pageNo, pageSize) == [pageNo |-> pageNo, pageSize |-> pageSize]

digitOf(c) == CASE c = "1" -> 1 [] c = "2" -> 2 [] c = "3" -> 3 [] OTHER -> 0

\* +projectId for a string of digits.
RECURSIVE toNumber(_)
toNumber(str) ==
  IF str = <<>> THEN 0
  ELSE 10 * toNumber(SubSeq(str, 1, Len(str) - 1)) + digitOf(str[Len(str)])

\* { ...query, ...q, projectID: +projectId }
getListRequest(st, q, pid) ==
  [state |-> query(st).state,
   pageNo |-> IF q.pageNo # 0 THEN q.pageNo ELSE query(st).pageNo,
   pageSize |-> q.pageSize,
   projectID |-> toNumber(pid)]

\* getList(q) of the render in which the selected tab is st.
getList(st, q) ==
  /\ requests' = <<getListRequest(st, q, projectId)>>
  /\ fetches' = fetches (+) SetToBag({getListRequest(st, q, projectId)})
  /\ latest' = getListRequest(st, q, projectId)

\* A step that calls getList not at all.
noGetList ==
  /\ requests' = <<>>
  /\ UNCHANGED <<fetches, latest>>

\* An iteration record of the table.
Detail(id, state) ==
  [id |-> id, title |-> <<"t", id>>, content |-> <<"c", id>>,
   startedAt |-> 10 + id, finishedAt |-> 20 + id, state |-> state,
   projectID |-> 12]

\* The argument onFiled gives handleFiledIteration.
onFiledBody(record, operation) ==
  [id |-> record.id, startedAt |-> record.startedAt,
   finishedAt |-> record.finishedAt, title |-> record.title,
   content |-> record.content, state |-> operation]

\* actions.render with Archive and Unarchive exchanged.
actionsRenderExchanged(record) ==
  IF record.state # "FILED"
  THEN << [title |-> "dop:Unarchive", onClick |-> "onFiled", operation |-> "UNFILED"] >>
  ELSE << [title |-> "Edit", onClick |-> "onEdit", operation |-> ""],
          [title |-> "Archive", onClick |-> "onFiled", operation |-> "FILED"],
          [title |-> "Delete", onClick |-> "confirm", operation |-> ""] >>

\* actions.render: the row actions of a record, each with the handler its
\* onClick runs.
actionsRender(record) ==
  IF record.state = "FILED"
  THEN << [title |-> "dop:Unarchive", onClick |-> "onFiled", operation |-> "UNFILED"] >>
  ELSE << [title |-> "Edit", onClick |-> "onEdit", operation |-> ""],
          [title |-> "Archive", onClick |-> "onFiled", operation |-> "FILED"],
          [title |-> "Delete", onClick |-> "confirm", operation |-> ""] >>

NoDetail == Detail(0, "")
NoConfirm == 0

ClosedModal == [modalVisible |-> FALSE, curDetail |-> NoDetail]

InFlight == Cardinality(deleting) + Cardinality(editing)

\* RadioTabs onChange: setStatus(v), then the effect on [getList].
SelectTab(v) ==
  /\ v # status
  /\ BagCardinality(fetches) < MaxFetches
  /\ status' = v
  /\ getList(v, Q(0, 0))
  /\ last' = "SelectTab" /\ input' = <<v>>
  /\ UNCHANGED <<paging, projectId, deleting, editing, modal, confirm>>
  /\ UNCHANGED iterationList
  /\ UNCHANGED barVars

\* The onChange of the table's pagination.
PageChange(no, size) ==
  /\ BagCardinality(fetches) < MaxFetches
  /\ getList(status, Q(no, size))
  /\ last' = "PageChange" /\ input' = <<Q(no, size)>>
  /\ UNCHANGED <<status, paging, projectId, deleting, editing, modal, confirm>>
  /\ UNCHANGED iterationList
  /\ UNCHANGED barVars

\* A click on the i-th row action of a record the table shows.
RowAction(record, i) ==
  LET action == actionsRender(record)[i]
  IN /\ record \in iterationList
     /\ i \in 1..Len(actionsRender(record))
     /\ confirm = NoConfirm
     /\ CASE action.onClick = "onEdit" ->
               /\ modal' = [modalVisible |-> TRUE, curDetail |-> record]
               /\ UNCHANGED <<editing, confirm>>
          [] action.onClick = "onFiled" ->
               /\ InFlight < MaxInFlight
               /\ editing' = editing \cup
                    {[body |-> onFiledBody(record, action.operation),
                      status |-> status]}
               /\ UNCHANGED <<modal, confirm>>
          [] OTHER ->
               /\ confirm' = record.id
               /\ UNCHANGED <<modal, editing>>
     /\ noGetList
     /\ last' = "RowAction" /\ input' = <<>>
     /\ UNCHANGED <<status, paging, projectId, deleting>>
     /\ UNCHANGED iterationList
     /\ UNCHANGED barVars

\* onOk of Modal.confirm: onDelete(record.id).
ConfirmOk ==
  /\ confirm # NoConfirm
  /\ InFlight < MaxInFlight
  /\ deleting' = deleting \cup {[id |-> confirm, status |-> status]}
  /\ confirm' = NoConfirm
  /\ noGetList
  /\ last' = "ConfirmOk" /\ input' = <<>>
  /\ UNCHANGED <<status, paging, projectId, editing, modal>>
  /\ UNCHANGED iterationList
  /\ UNCHANGED barVars

\* Cancel of Modal.confirm.
ConfirmCancel ==
  /\ confirm # NoConfirm
  /\ confirm' = NoConfirm
  /\ noGetList
  /\ last' = "ConfirmCancel" /\ input' = <<>>
  /\ UNCHANGED <<status, paging, projectId, deleting, editing, modal>>
  /\ UNCHANGED iterationList
  /\ UNCHANGED barVars

\* deleteIteration(id) resolves: getList({ pageNo: 1 }) of the render of the
\* call.
DeleteResolved(call) ==
  /\ call \in deleting
  /\ BagCardinality(fetches) < MaxFetches
  /\ deleting' = deleting \ {call}
  /\ getList(call.status, Q(1, 0))
  /\ last' = "DeleteResolved" /\ input' = <<>>
  /\ UNCHANGED <<status, paging, projectId, editing, modal, confirm>>
  /\ UNCHANGED iterationList
  /\ UNCHANGED barVars

\* handleFiledIteration(body) resolves: getList({ pageNo: 1 }) of the render
\* of the call.
EditResolved(call) ==
  /\ call \in editing
  /\ BagCardinality(fetches) < MaxFetches
  /\ editing' = editing \ {call}
  /\ getList(call.status, Q(1, 0))
  /\ last' = "EditResolved" /\ input' = <<>>
  /\ UNCHANGED <<status, paging, projectId, deleting, modal, confirm>>
  /\ UNCHANGED iterationList
  /\ UNCHANGED barVars

\* deleteIteration or handleFiledIteration rejects: no then-callback runs.
EffectRejected ==
  /\ \E call \in deleting \cup editing :
       /\ deleting' = deleting \ {call}
       /\ editing' = editing \ {call}
  /\ noGetList
  /\ last' = "EffectRejected" /\ input' = <<>>
  /\ UNCHANGED <<status, paging, projectId, modal, confirm>>
  /\ UNCHANGED iterationList
  /\ UNCHANGED barVars

\* The Add button.
onCreate ==
  /\ ~modal.modalVisible
  /\ confirm = NoConfirm
  /\ modal' = [modal EXCEPT !.modalVisible = TRUE]
  /\ noGetList
  /\ last' = "onCreate" /\ input' = <<>>
  /\ UNCHANGED <<status, paging, projectId, deleting, editing, confirm>>
  /\ UNCHANGED iterationList
  /\ UNCHANGED barVars

\* onClose of IterationModal.
handleClose(isSave) ==
  /\ modal.modalVisible
  /\ isSave => BagCardinality(fetches) < MaxFetches
  /\ modal' = ClosedModal
  /\ IF isSave THEN getList(status, Q(paging.pageNo, 0)) ELSE noGetList
  /\ last' = "handleClose" /\ input' = <<>>
  /\ UNCHANGED <<status, paging, projectId, deleting, editing, confirm>>
  /\ UNCHANGED iterationList
  /\ UNCHANGED barVars

\* The records of the project the server may hold.
Records == {Detail(1, "FILED"), Detail(2, "UNFILED")}

\* The lists the server may answer a getIterations call with: records of the
\* state the call asks for.
responsesTo(call) == SUBSET {record \in Records : record.state = call.state}

\* iterationStore: a getIterations call in flight resolves, whichever was
\* made first, and the store takes the list and the page of the response.
FetchSettled(call) ==
  /\ BagIn(call, fetches)
  /\ iterationList' \in responsesTo(call)
  /\ UNCHANGED latest
  /\ fetches' = fetches (-) SetToBag({call})
  /\ paging' = [pageNo |-> call.pageNo,
                pageSize |-> IF call.pageSize # 0 THEN call.pageSize
                             ELSE paging.pageSize]
  /\ requests' = <<>>
  /\ last' = "FetchSettled" /\ input' = <<>>
  /\ UNCHANGED <<status, projectId, deleting, editing, modal, confirm>>
  /\ UNCHANGED barVars

\* The state after the first render of the view and its effect.
IterationMounted(pid) ==
  /\ status = "unarchive"
  /\ projectId = pid
  /\ paging = [pageNo |-> 1, pageSize |-> 10]
  /\ requests = <<getListRequest("unarchive", Q(0, 0), pid)>>
  /\ fetches = SetToBag({requests[1]})
  /\ iterationList = {}
  /\ latest = requests[1]
  /\ deleting = {}
  /\ editing = {}
  /\ modal = ClosedModal
  /\ confirm = NoConfirm

(***************************************************************************)
(* Specification Spec: a bar of two custom conditions, with or without a   *)
(* controller, with and without a delay.                                   *)
(***************************************************************************)
CustomValues == {Undefined, Scalar(1)}
OptionValues == {1}
Texts == {Str(<<>>), Str(<<"x">>)}

ConditionsA ==
  << Cond("a", "custom", "undefined", FALSE, FALSE, "multiple", 1, <<>>),
     Cond("b", "custom", "undefined", FALSE, FALSE, "multiple", 2, <<>>) >>

MapA == [k \in Keys |-> IF k = "a" THEN Scalar(1) ELSE Undefined]
MapB == [k \in Keys |-> IF k = "b" THEN Scalar(1) ELSE Undefined]

\* The maps a controller passes.
ControllerMaps == {EmptyMap, MapA, MapB}

Init ==
  \E propValues \in {NoValues} \cup {[given |-> TRUE, map |-> m] : m \in {EmptyMap, MapA}},
     propDelay \in {0, Delay} :
    /\ Mounted(ConditionsA, propValues, EmptyMap, propDelay)
    /\ IterationMounted(<<"1">>)
    /\ input = <<>>

Next ==
  \/ \E k \in Keys, v \in CustomValues : CustomChange(k, v)
  \/ DebounceFire
  \/ Tick
  \/ \E m \in ControllerMaps : SetValues(m)

Spec == Init /\ [][Next]_vars

(***************************************************************************)
(* Specification SpecInput: a bar of one custom condition and a fixed      *)
(* input, whose item debounces its own changes and then forces them.       *)
(***************************************************************************)
ConditionsQ ==
  << Cond("a", "custom", "undefined", FALSE, FALSE, "multiple", 1, <<>>),
     Cond("q", "input", "undefined", FALSE, FALSE, "multiple", NoShowIndex, <<>>) >>

MapQ == [k \in Keys |-> IF k = "q" THEN Str(<<"x">>) ELSE Undefined]

InputControllerMaps == {EmptyMap, MapQ}

InitInput ==
  \E propValues \in {NoValues, [given |-> TRUE, map |-> EmptyMap]},
     propDelay \in {0, Delay} :
    /\ Mounted(ConditionsQ, propValues, EmptyMap, propDelay)
    /\ IterationMounted(<<"1">>)
    /\ input = <<>>

NextInput ==
  \/ \E k \in Keys, v \in CustomValues : CustomChange(k, v)
  \/ \E k \in Keys, text \in Texts : TypeInput(k, text)
  \/ \E k \in Keys : InputDebounceFire(k)
  \/ DebounceFire
  \/ Tick
  \/ \E m \in InputControllerMaps : SetValues(m)

SpecInput == InitInput /\ [][NextInput]_vars

(***************************************************************************)
(* Specification SpecShow: a bar without delay of a select condition and   *)
(* an input, for every combination of their flags.                         *)
(***************************************************************************)
Fixeds == {"true", "false", "undefined"}
Nodes == [wrap : BOOLEAN, dropdown : BOOLEAN, datePicker : BOOLEAN]

ShowConditions ==
  { << Cond("a", "select", fa, sa, ra, ma, ia, <<Opt(<<"a">>, 1)>>),
       Cond("q", "input", fq, FALSE, FALSE, "multiple", iq, <<>>) >> :
      fa \in Fixeds, sa \in BOOLEAN, ra \in BOOLEAN,
      ma \in {"single", "multiple"}, ia \in {NoShowIndex, 0, 1},
      fq \in Fixeds, iq \in {NoShowIndex, 0, 2} }

MapFor(conds) ==
  [k \in Keys |-> IF k = "a"
                  THEN (IF conds[1].mode = "single" THEN Scalar(1) ELSE Arr(<<1>>))
                  ELSE Undefined]

InitShow ==
  \E propsConditions \in ShowConditions :
    \E propInitValue \in {EmptyMap, MapFor(propsConditions)} :
      /\ Mounted(propsConditions, NoValues, propInitValue, 0)
      /\ IterationMounted(<<"1">>)
      /\ input = <<>>

NextShow ==
  \/ \E k \in Keys : VisibleChange(k)
  \/ \E k \in Keys, o \in OptionValues : ClickOption(k, o)
  \/ \E k \in Keys : ClearItem(k)
  \/ \E k \in Keys : CloseIcon(k)
  \/ ClearSelected
  \/ \E k \in Keys : ToggleCondition(k)
  \/ \E node \in Nodes : BodyClick(node)

SpecShow == InitShow /\ [][NextShow]_vars

(***************************************************************************)
(* Specification SpecOptions: a bar of one select condition with a search  *)
(* box, for every list of at most MaxOptions options over two labels, each *)
(* option without children or with a list of children without repetition.  *)
(***************************************************************************)
MaxOptions == 2

Labels == {<<"A", "b">>, <<"B">>}

SeqsUpTo(S, n) == UNION {[1..m -> S] : m \in 0..n}

ChildOptions == {Opt(l, l) : l \in Labels}

ChildLists ==
  {list \in SeqsUpTo(ChildOptions, Cardinality(ChildOptions)) :
     \A i, j \in 1..Len(list) : i # j => list[i] # list[j]}

OptionSet ==
  ChildOptions \cup {Group(l, l, list) : l \in Labels, list \in ChildLists}

OptionLists == SeqsUpTo(OptionSet, MaxOptions)

SearchTexts == {Str(<<>>), Str(<<"a">>), Str(<<"A">>), Str(<<"B">>)}

InitOptions ==
  \E options \in OptionLists :
    /\ Mounted(<<SelectCond("a", "true", FALSE, "multiple", NoShowIndex, options,
                            TRUE, FALSE)>>,
               NoValues, EmptyMap, 0)
    /\ IterationMounted(<<"1">>)
    /\ input = <<>>

NextOptions ==
  \/ \E k \in Keys : VisibleChange(k)
  \/ \E k \in Keys, text \in SearchTexts : SearchInput(k, text)

SpecOptions == InitOptions /\ [][NextOptions]_vars

(***************************************************************************)
(* Specification SpecClick: a bar of one fixed select condition with the   *)
(* option values 0, 1 and, in a group, 2, in either mode, required or not. *)
(***************************************************************************)
ClickOptions ==
  << Opt(<<"a">>, 0), Opt(<<"b">>, 1),
     Group(<<"A">>, 9, <<Opt(<<"a", "b">>, 2)>>) >>

ClickValues == {0, 1, 2}

ClickTexts == {Str(<<>>), Str(<<"a">>)}

ClickInitValues == {Undefined, Scalar(1), Arr(<<1>>)}

InitClick ==
  \E required \in BOOLEAN, mode \in {"single", "multiple"},
     first \in ClickInitValues :
    /\ Mounted(<<SelectCond("a", "true", required, mode, NoShowIndex,
                            ClickOptions, TRUE, FALSE)>>,
               NoValues, [k \in Keys |-> IF k = "a" THEN first ELSE Undefined], 0)
    /\ IterationMounted(<<"1">>)
    /\ input = <<>>

NextClick ==
  \/ \E k \in Keys : VisibleChange(k)
  \/ \E k \in Keys, text \in ClickTexts : SearchInput(k, text)
  \/ \E k \in Keys, o \in ClickValues : ClickOption(k, o)
  \/ \E k \in Keys : ClearItem(k)

SpecClick == InitClick /\ [][NextClick]_vars

(***************************************************************************)
(* Specification SpecQuick: a bar of one fixed select condition with a     *)
(* quick-add row, whose options the parent replaces.                       *)
(***************************************************************************)
QuickOptionLists ==
  { <<>>, <<Opt(<<"a">>, 2)>>, <<Opt(<<"b">>, 1)>>,
    <<Opt(<<"b">>, 1), Opt(<<"a">>, 2)>> }

QuickTexts == {Str(<<>>), Str(<<"a">>), Str(<<"b">>)}

QuickConditions(options) ==
  <<SelectCond("a", "true", FALSE, "multiple", NoShowIndex, options, FALSE, TRUE)>>

InitQuick ==
  \E options \in QuickOptionLists :
    /\ Mounted(QuickConditions(options), NoValues, EmptyMap, 0)
    /\ IterationMounted(<<"1">>)
    /\ input = <<>>

NextQuick ==
  \/ \E k \in Keys : VisibleChange(k)
  \/ \E k \in Keys, text \in QuickTexts : QuickType(k, text)
  \/ \E k \in Keys : QuickSaveClick(k)
  \/ \E options \in QuickOptionLists : SetConditions(QuickConditions(options))

SpecQuick == InitQuick /\ [][NextQuick]_vars

(***************************************************************************)
(* Specification SpecIteration: the iteration view of a project, showing   *)
(* an archived record and one in progress, with two pages.                 *)
(***************************************************************************)
ProjectIds == {<<"1", "2">>}

PageNos == {1, 2}
PageSizes == {20}

InitIteration ==
  \E pid \in ProjectIds :
    /\ Mounted(<<>>, NoValues, EmptyMap, 0)
    /\ IterationMounted(pid)
    /\ input = <<>>

NextIteration ==
  \/ \E v \in Tabs : SelectTab(v)
  \/ \E no \in PageNos, size \in PageSizes : PageChange(no, size)
  \/ \E record \in Records, i \in 1..3 : RowAction(record, i)
  \/ ConfirmOk
  \/ ConfirmCancel
  \/ \E call \in deleting : DeleteResolved(call)
  \/ \E call \in editing : EditResolved(call)
  \/ EffectRejected
  \/ onCreate
  \/ \E isSave \in BOOLEAN : handleClose(isSave)
  \/ \E call \in BagToSet(fetches) : FetchSettled(call)

SpecIteration == InitIteration /\ [][NextIteration]_vars

\* The view with its tabs and the row actions of the table only: no page
\* change and no modal is closed.
NextRowActions ==
  \/ \E v \in Tabs : SelectTab(v)
  \/ \E record \in Records, i \in 1..3 : RowAction(record, i)
  \/ ConfirmOk
  \/ ConfirmCancel
  \/ \E call \in deleting : DeleteResolved(call)
  \/ \E call \in editing : EditResolved(call)
  \/ \E call \in BagToSet(fetches) : FetchSettled(call)

SpecRowActions == InitIteration /\ [][NextRowActions]_vars

(***************************************************************************)
(* Specification SpecMore: a bar of one fixed select condition with a      *)
(* search box, with and without firstShowLength, whose options the parent  *)
(* replaces.                                                               *)
(***************************************************************************)
MoreOptions == << Opt(<<"a">>, 1), Opt(<<"a", "b">>, 2), Opt(<<"b">>, 3) >>

MoreOptionLists ==
  { <<>>, SubSeq(MoreOptions, 1, 1), SubSeq(MoreOptions, 1, 2), MoreOptions }

FirstShowLengths == {0, 1, 2}

MoreValues == {1, 2, 3}

MoreTexts == {Str(<<>>), Str(<<"a">>), Str(<<"b">>)}

MoreConditions(options, n) ==
  << [SelectCond("a", "true", FALSE, "multiple", NoShowIndex, options, TRUE, FALSE)
        EXCEPT !.firstShowLength = n] >>

InitMore ==
  \E options \in MoreOptionLists, n \in FirstShowLengths :
    /\ Mounted(MoreConditions(options, n), NoValues, EmptyMap, 0)
    /\ IterationMounted(<<"1">>)
    /\ input = <<>>

NextMore ==
  \/ \E k \in Keys : VisibleChange(k)
  \/ \E k \in Keys, text \in MoreTexts : SearchInput(k, text)
  \/ \E k \in Keys : LoadMore(k)
  \/ \E options \in MoreOptionLists, n \in FirstShowLengths :
       SetConditions(MoreConditions(options, n))

SpecMore == InitMore /\ [][NextMore]_vars

(***************************************************************************)
(* Specification SpecMenu: a bar without delay of a select condition that  *)
(* is an entry of the more-filter menu and an input, mounted with every    *)
(* combination of showIndex, initial value, split and the input's fixed.   *)
(***************************************************************************)
MenuShowIndexes == {NoShowIndex, 0, 1, 2}

MenuConditions ==
  { << Cond("a", "select", fa, sa, FALSE, "multiple", ia, <<Opt(<<"a">>, 1)>>),
       Cond("q", "input", fq, sq, FALSE, "multiple", iq, <<>>) >> :
      fa \in {"false", "undefined"}, sa \in BOOLEAN, ia \in MenuShowIndexes,
      fq \in Fixeds, sq \in BOOLEAN, iq \in MenuShowIndexes }

MenuInitValues ==
  { [k \in Keys |-> IF k = "a" THEN va ELSE IF k = "q" THEN vq ELSE Undefined] :
      va \in {Undefined, Arr(<<>>), Arr(<<1>>)}, vq \in {Undefined, Str(<<"x">>)} }

\* The bar is mounted with the conditions and the initial values of input.
InitMenu ==
  \E propsConditions \in MenuConditions, propInitValue \in MenuInitValues :
    /\ Mounted(propsConditions, NoValues, propInitValue, 0)
    /\ IterationMounted(<<"1">>)
    /\ input = <<propsConditions>>

NextMenu ==
  \/ \E k \in Keys : VisibleChange(k)
  \/ \E k \in Keys : CloseIcon(k)
  \/ \E k \in Keys : ToggleCondition(k)
  \/ ClearSelected

SpecMenu == InitMenu /\ [][NextMenu]_vars

(***************************************************************************)
(* Specification SpecTimeSpan: a bar of one fixed duration-range condition *)
(* whose Duration widget reports every pair of four bounds.                *)
(***************************************************************************)
DurationBounds ==
  {NoDuration, Duration(1, "s"), Duration(1000, "ms"), Duration(2, "ms")}

DurationRanges == {<<x, y>> : x \in DurationBounds, y \in DurationBounds}

TimeSpanConditions ==
  << Cond("a", "timespanRange", "true", FALSE, FALSE, "multiple", NoShowIndex, <<>>) >>

TimeSpanInitValues == {Undefined, Arr(<<Duration(2, "ms"), Duration(1, "s")>>)}

InitTimeSpan ==
  \E first \in TimeSpanInitValues, propDelay \in {0, Delay} :
    /\ Mounted(TimeSpanConditions, NoValues,
               [k \in Keys |-> IF k = "a" THEN first ELSE Undefined], propDelay)
    /\ IterationMounted(<<"1">>)
    /\ input = <<>>

NextTimeSpan ==
  \/ \E k \in Keys, v \in DurationRanges : TimeSpanChange(k, v)
  \/ DebounceFire
  \/ Tick

SpecTimeSpan == InitTimeSpan /\ [][NextTimeSpan]_vars

(***************************************************************************)
(* The claims.                                                             *)
(***************************************************************************)

\* C1: no user operation on the bar turns the non-empty value of a required
\* condition into an empty or undefined one.
C1_RequiredNeverCleared ==
  [][\A i \in 1..Len(conditions) :
       (conditions[i].required /\ ~IsEmptyValue(valueMap[conditions[i].key]))
         => ~IsEmptyValue(valueMap'[conditions[i].key])]_vars

\* C2: a change without forceChange under a non-zero delay calls nothing
\* upstream in its own step and arms the debounce for the full delay; the
\* debounce runs only once the delay has passed since the last such change;
\* a forced change, and any change under delay 0, calls upstream in its step.
C2_DebounceTiming ==
  [][/\ \A k \in Keys, v \in CustomValues :
          CustomChange(k, v) =>
            IF delay # 0
            THEN emitted' = <<>> /\ debouncedChange'.pending
                 /\ debouncedChange'.left = delay
            ELSE Len(emitted') = 1
     /\ \A k \in Keys :
          InputDebounceFire(k) => Len(emitted') = 1 /\ emitted'[1].key = k
     /\ DebounceFire => delay # 0 /\ sinceChange >= delay
     /\ emitted' # <<>> =>
          \/ DebounceFire
          \/ delay = 0
          \/ \E k \in Keys : InputDebounceFire(k)]_vars

\* C2 witness: a change has just been made under a non-zero delay, nothing was
\* called upstream and the debounce is armed.
C2_Witness ==
  /\ delay # 0
  /\ debouncedChange.pending
  /\ debouncedChange.left = delay
  /\ sinceChange = 0
  /\ emitted = <<>>
  /\ valueMap # EmptyMap

\* C3 as stated: the run of the debounce that ends a burst of changes without
\* forceChange is the only upstream call since the burst began, and its value
\* map holds, for every key changed in the burst, the last value given to it.
C3_BurstOneCallAllChanges ==
  [][(DebounceFire /\ ~burst.forced) =>
       /\ burst.open
       /\ burst.calls = 0
       /\ Len(emitted') = 1
       /\ \A k \in Keys :
            burst.changed[k] # NoChange => emitted'[1].map[k] = burst.changed[k]]_vars

\* C3 amended: the same, for a burst during which the controller passed no
\* new values prop.
C3_BurstOneCallAllChangesNoReset ==
  [][(DebounceFire /\ ~burst.forced /\ ~burst.reset) =>
       /\ burst.open
       /\ burst.calls = 0
       /\ Len(emitted') = 1
       /\ \A k \in Keys :
            burst.changed[k] # NoChange => emitted'[1].map[k] = burst.changed[k]]_vars

\* C3 witness: a burst that changed both conditions, with no new values prop
\* in between, whose debounce is due.
C3_Witness ==
  /\ debounceDue(debouncedChange)
  /\ burst.open
  /\ ~burst.reset
  /\ burst.changed["a"] = Scalar(1)
  /\ burst.changed["b"] = Scalar(1)
  /\ sinceChange = Delay

\* C4: the arguments a change of one condition hands upstream, at once or
\* through the debounce, are the internal value map as it is after the change
\* (the changed key at its new value, every other key as the bar holds it) and
\* the key that changed; the debounce delivers the arguments it was handed.
C4_CallCarriesInternalMap ==
  [][/\ \A k \in Keys, v \in CustomValues :
          CustomChange(k, v) =>
            /\ valueMap' = [j \in Keys |-> IF j = k THEN v ELSE valueMap[j]]
            /\ IF delay # 0
               THEN debouncedChange'.args = [map |-> valueMap', key |-> k]
               ELSE emitted' = <<[map |-> valueMap', key |-> k]>>
     /\ \A k \in Keys :
          InputDebounceFire(k) =>
            /\ valueMap' = [j \in Keys |-> IF j = k THEN inputDebounce[k].args.value
                                           ELSE valueMap[j]]
            /\ emitted' = <<[map |-> valueMap', key |-> k]>>
     /\ DebounceFire => emitted' = <<debouncedChange.args>>]_vars

\* C4 witness: an upstream call for key "a" whose map holds the new value of
\* "a" and the text the bar holds for "q".
C4_Witness ==
  /\ emitted # <<>>
  /\ emitted[1].key = "a"
  /\ emitted[1].map["a"] = Scalar(1)
  /\ emitted[1].map["q"] = Str(<<"x">>)
  /\ emitted[1].map = valueMap

\* C5: under a values prop the internal value map is the latest values.
C5_ControlledMapIsValues == values.given => valueMap = values.map

\* C6: the show list holds exactly the conditions that are not split and have
\* (a) a type other than input and a value other than undefined, or (b) a type
\* other than input and fixed or a non-zero showIndex, or (c) type input,
\* fixed false and a non-zero showIndex; each once, by ascending showIndex.
C6_ShowListExact ==
  LET sl == showListOf(conditions, valueMap)
      NonZero(x) == IsNumber(x) /\ x # 0
      Expected(a) ==
        /\ ~a.split
        /\ \/ a.type # "input" /\ valueMap[a.key] # Undefined
           \/ a.type # "input" /\ (a.fixed = "true" \/ NonZero(a.showIndex))
           \/ a.type = "input" /\ a.fixed = "false" /\ NonZero(a.showIndex)
  IN /\ \A i \in 1..Len(conditions) :
          (\E j \in 1..Len(sl) : sl[j] = conditions[i]) <=> Expected(conditions[i])
     /\ Len(sl) = Cardinality(KeysOf(sl))
     /\ \A i, j \in 1..Len(sl) :
          (i < j /\ IsNumber(sl[i].showIndex) /\ IsNumber(sl[j].showIndex))
            => sl[i].showIndex <= sl[j].showIndex

\* C6 witness: both conditions are shown, the input before the select that
\* precedes it in the conditions, after the menu gave the select a showIndex.
C6_Witness ==
  LET sl == showListOf(conditions, valueMap)
  IN /\ Len(sl) = 2
     /\ sl[1].key = "q"
     /\ sl[2].key = "a"
     /\ sl[2].showIndex = 3
     /\ valueMap["a"] = Undefined

\* label contains f, whatever the case of their letters.
ContainsIgnoringCase(label, f) ==
  \E i \in 1..(Len(label) - Len(f) + 1) :
    \A j \in 1..Len(f) : toLowerCaseChar(label[i + j - 1]) = toLowerCaseChar(f[j])

IsIncreasing(idx, n) == \A i, j \in 1..n : i < j => idx[i] < idx[j]

\* kept is list reduced to exactly its members whose label contains f.
ReducedTo(kept, list, f) ==
  \E idx \in [1..Len(kept) -> 1..Len(list)] :
    /\ IsIncreasing(idx, Len(kept))
    /\ \A i \in 1..Len(kept) : kept[i] = list[idx[i]]
    /\ \A j \in 1..Len(list) :
         (\E i \in 1..Len(kept) : idx[i] = j) <=> ContainsIgnoringCase(list[j].label, f)

Qualifies(o, f) ==
  IF o.children.has
  THEN \E j \in 1..Len(o.children.list) : ContainsIgnoringCase(o.children.list[j].label, f)
  ELSE ContainsIgnoringCase(o.label, f)

FilterKeys ==
  {Undefined, Str(<<"b">>), Str(<<"a", "B">>), Str(<<"b", "a">>)} \cup SearchTexts

\* C7: getSelectOptions returns its options as they are for an empty
\* filterKey; otherwise it returns, in their order, exactly the options without
\* children whose label contains filterKey regardless of case, and the
\* options with children of which a child's label does, their children
\* reduced to exactly those children in their order; the call leaves its
\* argument as it was.
C7_GetSelectOptionsExact ==
  LET options == CondOf(conditions, "a").options
  IN \A filterKey \in FilterKeys :
       LET run == getSelectOptionsRun(options, filterKey)
           ret == run.useableOptions
           f == filterKey.v
       IN /\ run.options = options
          /\ IF filterKey \in {Undefined, Str(<<>>)} THEN ret = options
             ELSE \E idx \in [1..Len(ret) -> 1..Len(options)] :
                    /\ IsIncreasing(idx, Len(ret))
                    /\ \A j \in 1..Len(options) :
                         (\E i \in 1..Len(ret) : idx[i] = j) <=> Qualifies(options[j], f)
                    /\ \A i \in 1..Len(ret) :
                         LET o == options[idx[i]]
                         IN IF ~o.children.has THEN ret[i] = o
                            ELSE /\ ret[i].label = o.label
                                 /\ ret[i].value = o.value
                                 /\ ret[i].children.has
                                 /\ ReducedTo(ret[i].children.list, o.children.list, f)

\* C7 witness: the search text "a" was typed over an option "B" and a group
\* with the children "Ab" and "B"; the item renders the group alone, with the
\* child "Ab" alone.
C7_Witness ==
  LET options == CondOf(conditions, "a").options
      ret == getSelectOptions(options, filterMap["a"])
  IN /\ last = "SearchInput"
     /\ filterMap["a"] = Str(<<"a">>)
     /\ Len(options) = 2
     /\ options[1] = Opt(<<"B">>, <<"B">>)
     /\ options[2].children.list = <<Opt(<<"A", "b">>, <<"A", "b">>), Opt(<<"B">>, <<"B">>)>>
     /\ Len(ret) = 1
     /\ ret[1].children.list = <<Opt(<<"A", "b">>, <<"A", "b">>)>>

\* The values selected before a click, as an array.
PreviousArray(value) ==
  IF value = Undefined THEN <<>>
  ELSE IF value.t = "array" THEN value.v
  ELSE <<value.v[1]>>

\* C8: a click on an option that emits a change emits, in single mode, the
\* option's value when it was not the selected one and undefined when it was,
\* and closes the dropdown; in multiple mode it emits the previous value
\* array with the option's value removed if present and appended if not, and
\* leaves the dropdown open.
C8_ClickOptionEmits ==
  [][\A k \in Keys, o \in ClickValues :
       (ClickOption(k, o) /\ emitted' # <<>>) =>
         LET previous == PreviousArray(valueMap[k])
             expected ==
               IF CondOf(conditions, k).mode = "single"
               THEN (IF Includes(previous, o) THEN Undefined ELSE Scalar(o))
               ELSE (IF Includes(previous, o) THEN Arr(Without(previous, o))
                     ELSE Arr(previous \o <<o>>))
         IN /\ Len(emitted') = 1
            /\ emitted'[1].key = k
            /\ emitted'[1].map[k] = expected
            /\ IF CondOf(conditions, k).mode = "single"
               THEN ~activeMap'[k]
               ELSE activeMap'[k] /\ ~closeAll']_vars

\* C9: a click on Save calls onSave only with the name typed, and only when
\* the name is not empty and is the label of no option of the item as it is
\* at the click; the click leaves the input empty.
C9_QuickSaveOnlyNewNames ==
  [][\A k \in Keys :
       QuickSaveClick(k) =>
         LET name == quickSave[k].v
             exists == name.v \in labelsOf(CondOf(conditions, k).options)
         IN /\ (name = Str(<<>>) \/ exists) => quickOps' = <<>>
            /\ quickOps' # <<>> =>
                 quickOps' = <<[key |-> QuickAddKey, value |-> name]>>
            /\ quickSave'[k].v = Str(<<>>)]_vars

\* C10: a click on a node outside every wrapper and every dropdown overlay,
\* while the picker of a rendered item is open, sets closeAll, so that no
\* item is rendered active.
C10_OutsideClickClosesAll ==
  [][\A node \in Nodes :
       (/\ BodyClick(node)
        /\ ~node.wrap
        /\ ~node.dropdown
        /\ \E k \in Keys : Rendered(k) /\ Active(k))
         => (closeAll' /\ \A k \in Keys : ~Active(k)')]_vars

\* A bound of a duration range that is a duration, and its milliseconds.
IsDuration(d) == d.unit # "none"
Millis(d) == IF d.unit = "s" THEN 1000 * d.timer ELSE d.timer

\* The value v reaches the bar as the change of key: the value map holds it,
\* and the upstream call of the step, or the pending debounced call, carries
\* it.
PassedOn(key, v) ==
  /\ valueMap'[key] = v
  /\ toasts' = <<>>
  /\ IF delay = 0
     THEN emitted' = <<[map |-> [valueMapRef EXCEPT ![key] = v], key |-> key]>>
     ELSE /\ emitted' = <<>>
          /\ debouncedChange'.pending
          /\ debouncedChange'.args = [map |-> [valueMapRef EXCEPT ![key] = v],
                                      key |-> key]

\* C11: a duration range reported by the widget of a timespanRange item whose
\* bounds are both durations with the lower above the upper shows the error
\* message and changes nothing: no value is set, nothing is emitted or
\* scheduled; with the lower at most the upper the range is passed on as it
\* is; with neither bound a duration the empty array is passed on.
C11_TimeSpanRangeChecked ==
  [][last' = "TimeSpanChange" =>
       LET key == input'[1].key
           v == input'[1].v
       IN /\ (IsDuration(v[1]) /\ IsDuration(v[2]) /\ Millis(v[1]) > Millis(v[2]))
               => /\ toasts' = <<WrongDuration>>
                  /\ emitted' = <<>>
                  /\ UNCHANGED <<valueMap, valueMapRef, debouncedChange, upstream>>
          /\ (IsDuration(v[1]) /\ IsDuration(v[2]) /\ Millis(v[1]) <= Millis(v[2]))
               => PassedOn(key, Arr(v))
          /\ (~IsDuration(v[1]) /\ ~IsDuration(v[2]))
               => PassedOn(key, Arr(<<>>))]_vars

\* A range with the lower bound above the upper was rejected while the
\* condition held a value.
C11_Witness ==
  /\ last = "TimeSpanChange"
  /\ toasts = <<WrongDuration>>
  /\ Millis(input[1].v[1]) > Millis(input[1].v[2])
  /\ valueMap["a"] # Undefined

\* C12: every getIterations call carries the state filter of the selected
\* tab (FILED for 'archived', UNFILED for 'unarchive') and the project id as
\* a number; selecting the other tab calls it with that tab's state and
\* pageNo 1; a pagination change calls it with the chosen pageNo and
\* pageSize and the same state.
C12_RequestsCarryTabState ==
  /\ \A i \in 1..Len(requests) :
       /\ requests[i].state = (IF status = "archived" THEN "FILED" ELSE "UNFILED")
       /\ requests[i].projectID \in Nat
  /\ last = "SelectTab" =>
       /\ Len(requests) = 1
       /\ requests[1].state = (IF input[1] = "archived" THEN "FILED" ELSE "UNFILED")
       /\ requests[1].pageNo = 1
  /\ last = "PageChange" =>
       /\ Len(requests) = 1
       /\ requests[1].pageNo = input[1].pageNo
       /\ requests[1].pageSize = input[1].pageSize
       /\ requests[1].state = (IF status = "archived" THEN "FILED" ELSE "UNFILED")

\* The titles of the row actions of a record, in order.
TitlesOf(record) ==
  [i \in 1..Len(actionsRender(record)) |-> actionsRender(record)[i].title]

\* The handler and the operation of the row action of a record with a title.
ActionOf(record, title) ==
  actionsRender(record)[CHOOSE i \in 1..Len(actionsRender(record)) :
                          actionsRender(record)[i].title = title]

\* C13: the row actions of a record depend on its state alone: a FILED
\* record offers exactly Unarchive, which requests the state UNFILED; any
\* other record offers exactly Edit, Archive, which requests the state
\* FILED, and Delete; an archive or unarchive request in flight carries the
\* id, title, content, startedAt and finishedAt of its record.
C13_RowActionsByState ==
  /\ \A id \in {1, 2}, state \in {"FILED", "UNFILED", ""} :
       LET record == Detail(id, state)
       IN IF state = "FILED"
          THEN /\ TitlesOf(record) = <<"dop:Unarchive">>
               /\ ActionOf(record, "dop:Unarchive").onClick = "onFiled"
               /\ ActionOf(record, "dop:Unarchive").operation = "UNFILED"
          ELSE /\ TitlesOf(record) = <<"Edit", "Archive", "Delete">>
               /\ ActionOf(record, "Edit").onClick = "onEdit"
               /\ ActionOf(record, "Archive").onClick = "onFiled"
               /\ ActionOf(record, "Archive").operation = "FILED"
               /\ ActionOf(record, "Delete").onClick = "confirm"
  /\ \A call \in editing :
       \E record \in Records :
         /\ call.body.id = record.id
         /\ call.body.title = record.title
         /\ call.body.content = record.content
         /\ call.body.startedAt = record.startedAt
         /\ call.body.finishedAt = record.finishedAt
         /\ call.body.state = (IF record.state = "FILED" THEN "UNFILED" ELSE "FILED")
         /\ DOMAIN call.body =
              {"id", "title", "content", "startedAt", "finishedAt", "state"}

\* Unarchive was clicked on the archived record and its request is in flight.
C13_Witness ==
  /\ last = "RowAction"
  /\ \E call \in editing : call.body.id = 1 /\ call.body.state = "UNFILED"

\* C14: when a deleteIteration call or an archive or unarchive update
\* resolves, exactly one getIterations call is made, with pageNo 1 and the
\* state filter of the tab selected at that moment; the steps that start
\* such a call make no getIterations call, and a rejected call makes none.
C14_RefetchAfterResolve ==
  /\ last \in {"DeleteResolved", "EditResolved"} =>
       /\ Len(requests) = 1
       /\ requests[1].pageNo = 1
       /\ requests[1].state = (IF status = "archived" THEN "FILED" ELSE "UNFILED")
  /\ last \in {"RowAction", "ConfirmOk", "EffectRejected"} => requests = <<>>

\* The options of the select item of key that match its search text, and
\* the ones its menu displays.
MatchingOptions(key) ==
  getSelectOptions(CondOf(conditions, key).options, filterMap[key])

DisplayedOptions(key) ==
  useOptionsOf(CondOf(conditions, key), filterMap[key], hasMore[key])

\* C15: a select item offers 'load more' exactly when an option matching
\* the search text is hidden by the truncation to firstShowLength; while it
\* is offered at most firstShowLength top-level options are displayed; while
\* it is not, and after a click on it, every matching option is displayed.
C15_LoadMoreWhenHidden ==
  \A key \in KeysOf(renderedListOf(conditions, valueMap)) :
    CondOf(conditions, key).type = "select" =>
      /\ hasMore[key] <=> Len(DisplayedOptions(key)) < Len(MatchingOptions(key))
      /\ hasMore[key] =>
           Len(DisplayedOptions(key)) <= firstShowLengthOf(CondOf(conditions, key))
      /\ ~hasMore[key] => DisplayedOptions(key) = MatchingOptions(key)
      /\ last = "LoadMore" => DisplayedOptions(key) = MatchingOptions(key)

\* The conditions 'Clear selected' is to leave alone: the fixed ones and the
\* inputs whose fixed is not false.
IsKeptCondition(c) == c.fixed = "true" \/ (c.type = "input" /\ c.fixed # "false")

KeptKeys == {conditions[i].key : i \in {j \in 1..Len(conditions) :
                                          IsKeptCondition(conditions[j])}}

\* C16: 'Clear selected' leaves the value of every fixed condition and of
\* every input whose fixed is not false unchanged and sets the value of every
\* other key to its initial value, or to undefined when it has none; it
\* leaves the showIndex of the former conditions unchanged and sets that of
\* the other conditions to 0.
C16_ClearSelectedFrame ==
  [][last' = "ClearSelected" =>
       /\ \A k \in Keys :
            valueMap'[k] = IF k \in KeptKeys THEN valueMap[k] ELSE initValue[k]
       /\ Len(conditions') = Len(conditions)
       /\ \A i \in 1..Len(conditions) :
            conditions'[i].showIndex =
              IF IsKeptCondition(conditions[i]) THEN conditions[i].showIndex ELSE 0]_vars

\* The conditions getInitConditions is to show: those without a showIndex
\* and with a value, and those whose value is a non-empty array.
ShownByDefault(c, map) ==
  \/ c.showIndex = NoShowIndex /\ map[c.key] # Undefined
  \/ map[c.key].t = "array" /\ map[c.key].v # <<>>

\* C17: getInitConditions gives every condition that has no showIndex and a
\* defined initial value, and every condition whose initial value is a
\* non-empty array, a showIndex that is a number, greater than every
\* supplied showIndex and different from the other ones it assigns; every
\* other condition keeps its showIndex; so also when no supplied condition
\* has a showIndex.
C17_InitShowIndexes ==
  last = "mount" =>
    LET supplied == input[1]
        out == getInitConditions(supplied, initValue)
    IN /\ Len(out) = Len(supplied)
       /\ \A i \in 1..Len(supplied) :
            IF ShownByDefault(supplied[i], initValue)
            THEN /\ out[i].showIndex >= 0
                 /\ \A j \in 1..Len(supplied) :
                      supplied[j].showIndex >= 0
                        => out[i].showIndex > supplied[j].showIndex
                 /\ \A j \in 1..Len(supplied) :
                      (j # i /\ ShownByDefault(supplied[j], initValue))
                        => out[j].showIndex # out[i].showIndex
            ELSE out[i].showIndex = supplied[i].showIndex

\* No debounce timer is pending, the bar's or an input item's.
NoTimerPending ==
  /\ ~debouncedChange.pending
  /\ \A k \in Keys : ~inputDebounce[k].pending

\* C18: whenever no debounce timer is pending, the map of the most recent
\* upstream onChange call is the current internal value map; and the bar's
\* debounce, when it runs after a forced call was made during its wait, does
\* not deliver a map older than the forced call's, that is, it delivers the
\* current internal value map.
C18_UpstreamMapCurrent ==
  /\ [](NoTimerPending /\ upstream.called => upstream.map = valueMap)
  /\ [][(last' = "DebounceFire" /\ burst.forced /\ ~burst.reset)
          => emitted'[1].map = valueMap]_vars

\* C19: every key occurs at most once in [...mainList, ...inputList,
\* ...showList], whatever the split, fixed and type of the conditions and
\* their values: the three lists are pairwise disjoint.
C19_RenderedKeysDistinct ==
  LET list == mainListOf(conditions) \o inputListOf(conditions)
                \o showListOf(conditions, valueMap)
  IN \A i, j \in 1..Len(list) : i # j => list[i].key # list[j].key

\* The keys of the conditions the bar displays as toggled or valued.
ShownKeys(conds, map) == KeysOf(showListOf(conds, map))

\* C20: a click on the menu entry of a displayed condition removes it from
\* the displayed list; a click on the entry of a condition not displayed
\* adds it as the last item of the list and opens its picker; a second click
\* on the same entry would restore the displayed set of before the first.
C20_MenuClickToggles ==
  [][last' = "ToggleCondition" =>
       LET key == input'[1]
           list == showListOf(conditions', valueMap')
           again == setConditionShowIndex(conditions', key,
                                          key \notin ShownKeys(conditions', valueMap'))
       IN /\ IF key \in ShownKeys(conditions, valueMap)
             THEN key \notin ShownKeys(conditions', valueMap')
             ELSE /\ list # <<>>
                  /\ list[Len(list)].key = key
                  /\ ~closeAll' /\ activeMap'[key]
          /\ ShownKeys(again, valueMap') = ShownKeys(conditions, valueMap)]_vars

\* The response that settles in this step is the last one in flight.
LastResponseArrives == last' = "FetchSettled" /\ fetches' = EmptyBag

\* C21: once every getIterations call in flight has resolved, the list the
\* table shows is the response to the most recent call, whatever order the
\* responses arrive in, and it holds only records of the state of the
\* selected tab.
C21_ListOfLatestRequest ==
  /\ [][LastResponseArrives => fetches = SetToBag({latest})]_vars
  /\ [](fetches = EmptyBag =>
         \A record \in iterationList : record.state = iterationStateMap(status))

\* The debounced change of the input item of key runs in this step.
InputDebounceFires(key) ==
  /\ last' = "InputDebounceFire"
  /\ debounceDue(inputDebounce[key])
  /\ ~inputDebounce'[key].pending

\* C22: when the debounced change of an input item runs, the value it
\* passes on is the text the input shows at that moment; a text the user
\* has reverted, or one a new value prop has replaced, is not passed on.
C22_InputEmitsShownText ==
  [][\A key \in Keys :
       InputDebounceFires(key) =>
         inputDebounce[key].args.value = inputVal[key]]_vars
====
